---- MODULE Spec2Model ----
(***************************************************************************)
(* Model of RopesConanFile (conanfile.py): the dependency table            *)
(* conan_packages, the three options, and the methods configure and        *)
(* requirements.                                                           *)
(*                                                                         *)
(* conan_packages is a class attribute: every instance of RopesConanFile   *)
(* reads and writes the same dict object through self.conan_packages, so   *)
(* the dict is one variable of the model and lives across configuration    *)
(* passes.  A dict is modelled as the sequence of its items in insertion   *)
(* order, each item a record [name, ref].                                  *)
(***************************************************************************)
EXTENDS Integers, Sequences, FiniteSets, TLC

VARIABLES
    conan_packages,   \* the class-level dict RopesConanFile.conan_packages
    options,          \* self.options of the instance of the current pass
    pc,               \* position of the current pass
    requires,         \* the references handed to self.requires, in call order
    order,            \* StepwiseSpec only: the order in which the steps are applied
    done              \* StepwiseSpec only: how many steps of order have been applied

vars == <<conan_packages, options, pc, requires, order, done>>

----------------------------------------------------------------------------
(* Class attributes *)

opengl_sanity_check == "opengl/system"

base_packages ==
    << [name |-> "fmt",        ref |-> "fmt/10.2.1"],
       [name |-> "mp-units",   ref |-> "mp-units/2.2.1"],
       [name |-> "scope-lite", ref |-> "scope-lite/0.2.0"],
       [name |-> "structopt",  ref |-> "structopt/0.1.3"],
       [name |-> "imgui",      ref |-> "imgui/1.90.5"],
       [name |-> "implot",     ref |-> "implot/0.16"],
       [name |-> "glfw",       ref |-> "glfw/3.3.8"],
       [name |-> "sdl",        ref |-> "sdl/2.28.3"],
       [name |-> "sdl_ttf",    ref |-> "sdl_ttf/2.22.0"] >>

\* The declared domain of each option.
option_domains ==
    [ check_opengl_compatibility : {"yes", "no"},
      opengl_source              : {"conan", "system"},
      sdl_source                 : {"conan", "system"} ]

default_options ==
    [ check_opengl_compatibility |-> "yes",
      opengl_source              |-> "conan",
      sdl_source                 |-> "conan" ]

\* Option sets in which an option may also hold a string its domain does not list.
\* configure only compares option values with string literals, so one such string
\* per option stands for all of them.
loose_options ==
    [ check_opengl_compatibility : {"yes", "no", "maybe"},
      opengl_source              : {"conan", "system", "brew"},
      sdl_source                 : {"conan", "system", "brew"} ]

----------------------------------------------------------------------------
(* dict operations, on a sequence of items in insertion order *)

Keys(d) == { d[i].name : i \in 1..Len(d) }

HasKey(d, k) == k \in Keys(d)

\* The (key, value) pairs of d, as a set: two dicts are equal when these are.
Items(d) == { d[i] : i \in 1..Len(d) }

\* d[k] = v : an existing key keeps its position, a new key goes last.
SetItem(d, k, v) ==
    IF HasKey(d, k)
    THEN [i \in 1..Len(d) |-> IF d[i].name = k THEN [name |-> k, ref |-> v] ELSE d[i]]
    ELSE Append(d, [name |-> k, ref |-> v])

\* The items of d whose key is not k, in order.
Without(d, k) == SelectSeq(d, LAMBDA it : it.name # k)

\* An execution state of configure: the dict so far and whether an exception has
\* been raised (an exception ends the method: the later statements do not run).
Running(d) == [packages |-> d, raised |-> FALSE]

\* d.pop(k), with no default: KeyError when k is not a key of d.
Pop(st, k) ==
    IF st.raised THEN st
    ELSE IF HasKey(st.packages, k)
         THEN [packages |-> Without(st.packages, k), raised |-> FALSE]
         ELSE [packages |-> st.packages, raised |-> TRUE]

----------------------------------------------------------------------------
(* configure, statement by statement *)

\* Variant: the test is written  != "no"  instead of  == "yes".
StepOpengl_unless_no(st, o) ==
    IF st.raised THEN st
    ELSE IF o.check_opengl_compatibility # "no"
         THEN [st EXCEPT !.packages = SetItem(@, "opengl", opengl_sanity_check)]
         ELSE st

\* if self.options.check_opengl_compatibility == "yes":
\*     self.conan_packages["opengl"] = self.opengl_sanity_check
StepOpengl(st, o) ==
    IF st.raised THEN st
    ELSE IF o.check_opengl_compatibility = "yes"
         THEN [st EXCEPT !.packages = SetItem(@, "opengl", opengl_sanity_check)]
         ELSE st

\* if self.options.sdl_source == "system":
\*     self.conan_packages.pop("sdl"); self.conan_packages.pop("sdl_ttf")
StepSdl(st, o) ==
    IF st.raised THEN st
    ELSE IF o.sdl_source = "system"
         THEN Pop(Pop(st, "sdl"), "sdl_ttf")
         ELSE st

\* Variant: opengl_source == "system" pops the key named after the option, "opengl".
StepGlfw_pops_opengl(st, o) ==
    IF st.raised THEN st
    ELSE IF o.opengl_source = "system"
         THEN Pop(st, "opengl")
         ELSE st

\* if self.options.opengl_source == "system":
\*     self.conan_packages.pop("glfw")
StepGlfw(st, o) ==
    IF st.raised THEN st
    ELSE IF o.opengl_source = "system"
         THEN Pop(st, "glfw")
         ELSE st

\* The whole method, run on dict d with options o.
configure(d, o) == StepGlfw(StepSdl(StepOpengl(Running(d), o), o), o)

\* Variant: the loop iterates the dict itself and hands the keys to self.requires.
requirements_keys(d) == [i \in 1..Len(d) |-> d[i].name]

\* for name, ref in self.conan_packages.items(): self.requires(ref)
requirements(d) == [i \in 1..Len(d) |-> d[i].ref]

----------------------------------------------------------------------------
(* Configuration passes on the one class *)

TypeOK ==
    /\ pc \in {"idle", "configuring", "configured", "failed", "required"}
    /\ options \in loose_options
    /\ Keys(conan_packages) \subseteq Keys(base_packages) \cup {"opengl"}

\* The class body has been executed and the first instance has its options.
Init ==
    /\ conan_packages = base_packages
    /\ options \in option_domains
    /\ pc = "idle"
    /\ requires = <<>>
    /\ order = <<>>
    /\ done = 0

\* The build tool calls configure() on the instance.
ConfigurePass ==
    /\ pc = "idle"
    /\ LET r == configure(conan_packages, options) IN
         /\ conan_packages' = r.packages
         /\ pc' = IF r.raised THEN "failed" ELSE "configured"
    /\ UNCHANGED <<options, requires, order, done>>

\* The build tool calls requirements() after configure() has returned.
RequirementsPass ==
    /\ pc = "configured"
    /\ requires' = requires \o requirements(conan_packages)
    /\ pc' = "required"
    /\ UNCHANGED <<conan_packages, options, order, done>>

\* The pass is over (its requirements are registered, or configure raised), and the
\* build tool makes the next instance of the class, with options drawn from dom.
NextInstance(dom) ==
    /\ pc \in {"required", "failed"}
    /\ options' \in dom
    /\ pc' = "idle"
    /\ requires' = <<>>
    /\ UNCHANGED <<conan_packages, order, done>>

NewPass == NextInstance(option_domains)

Next == ConfigurePass \/ RequirementsPass \/ NewPass

Spec == Init /\ [][Next]_vars

\* The same passes, with option values the declared domains do not list let through
\* to the instance.
LooseInit ==
    /\ conan_packages = base_packages
    /\ options \in loose_options
    /\ pc = "idle"
    /\ requires = <<>>
    /\ order = <<>>
    /\ done = 0

NewLoosePass == NextInstance(loose_options)

LooseNext == ConfigurePass \/ RequirementsPass \/ NewLoosePass

LooseSpec == LooseInit /\ [][LooseNext]_vars

----------------------------------------------------------------------------
(* The three conditional statements of configure applied one at a time to the   *)
(* table of the class body, in an order chosen at the start.                    *)

step_names == {"opengl", "sdl", "glfw"}

Orders == { s \in [1..Cardinality(step_names) -> step_names] :
              { s[i] : i \in DOMAIN s } = step_names }

Step(n, st, o) ==
    CASE n = "opengl" -> StepOpengl(st, o)
      [] n = "sdl"    -> StepSdl(st, o)
      [] n = "glfw"   -> StepGlfw(st, o)

StepwiseInit ==
    /\ conan_packages = base_packages
    /\ options \in option_domains
    /\ pc = "idle"
    /\ requires = <<>>
    /\ order \in Orders
    /\ done = 0

ApplyStep ==
    /\ pc \in {"idle", "configuring"}
    /\ done < Len(order)
    /\ LET r == Step(order[done + 1], Running(conan_packages), options) IN
         /\ conan_packages' = r.packages
         /\ pc' = IF r.raised THEN "failed"
                  ELSE IF done + 1 = Len(order) THEN "configured"
                  ELSE "configuring"
    /\ done' = done + 1
    /\ UNCHANGED <<options, requires, order>>

StepwiseNext == ApplyStep

StepwiseSpec == StepwiseInit /\ [][StepwiseNext]_vars

----------------------------------------------------------------------------
(* Properties *)

Range(s) == { s[i] : i \in 1..Len(s) }

Configured == pc \in {"configured", "failed"}

\* A step of configure: the only step that leaves "idle" in Spec and LooseSpec.
ConfigureStep == pc = "idle" /\ pc' # "idle"

base_with_opengl ==
    Items(base_packages) \cup {[name |-> "opengl", ref |-> opengl_sanity_check]}

\* C1: in every pass whose three options are at their defaults, configure returns
\* and leaves exactly the nine entries of the class body plus opengl -> "opengl/system".
C1_DefaultsGiveTenEntries ==
    (Configured /\ options = default_options)
        => /\ pc = "configured"
           /\ Items(conan_packages) = base_with_opengl
           /\ Len(conan_packages) = Len(base_packages) + 1

\* C2: whatever the other two options, where configure with sdl_source = "conan"
\* returns a mapping, configure with sdl_source = "system" (from the same dict, the
\* other options equal) returns too and leaves that mapping less the keys sdl and
\* sdl_ttf, which that mapping holds.
C2_SystemSdlRemovesExactlySdl ==
    [][ LET c == configure(conan_packages, [options EXCEPT !.sdl_source = "conan"]) IN
        (ConfigureStep /\ options.sdl_source = "system" /\ ~c.raised)
          =>   /\ pc' = "configured"
               /\ {"sdl", "sdl_ttf"} \subseteq Keys(c.packages)
               /\ Items(conan_packages')
                    = { it \in Items(c.packages) : it.name \notin {"sdl", "sdl_ttf"} } ]_vars

\* C3: whatever the other two options, where configure with opengl_source = "conan"
\* returns a mapping, configure with opengl_source = "system" (from the same dict,
\* the other options equal) returns too and leaves that mapping less the key glfw,
\* which that mapping holds.
C3_SystemOpenglRemovesExactlyGlfw ==
    [][ LET c == configure(conan_packages, [options EXCEPT !.opengl_source = "conan"]) IN
        (ConfigureStep /\ options.opengl_source = "system" /\ ~c.raised)
          =>   /\ pc' = "configured"
               /\ "glfw" \in Keys(c.packages)
               /\ Items(conan_packages')
                    = { it \in Items(c.packages) : it.name # "glfw" } ]_vars

\* C4: in a pass with check_opengl_compatibility = "no", after any earlier passes, the
\* mapping configure leaves has no opengl key and requirements passes on no opengl
\* reference.
C4_NoCheckNoOpenglKey ==
    (pc \in {"configured", "failed", "required"} /\ options.check_opengl_compatibility = "no")
        => /\ ~HasKey(conan_packages, "opengl")
           /\ opengl_sanity_check \notin Range(requires)

\* C5: configure run twice in a row with the same options has the same outcome both
\* times: neither run raises, and the second run leaves the mapping the first left.
C5_ConfigureTwiceSameOutcome ==
    Configured
        => LET again == configure(conan_packages, options) IN
             /\ pc = "configured"
             /\ ~again.raised
             /\ Items(again.packages) = Items(conan_packages)

\* C6: with option values inside their domains configure never raises, in any
\* sequence of passes: removing a key that is already absent is a silent no-op.
C6_ConfigureNeverRaises ==
    options \in option_domains => pc # "failed"

\* C7: every pass starts from the nine entries of the class body: configure of an
\* earlier pass or of another instance has left that table as it was.
C7_EachPassStartsFromBase ==
    pc = "idle" => conan_packages = base_packages

\* C9: requirements, run after configure, has called self.requires once for each
\* entry of the resolved mapping, with that entry's reference, and with nothing
\* else: no sdl or sdl_ttf reference when sdl_source = "system", no glfw reference
\* when opengl_source = "system".
C9_RequiresEachSurvivingEntryOnce ==
    pc = "required"
        => /\ Len(requires) = Len(conan_packages)
           /\ \A it \in Items(conan_packages) :
                Cardinality({ i \in 1..Len(requires) : requires[i] = it.ref }) = 1
           /\ Range(requires) \subseteq { it.ref : it \in Items(conan_packages) }
           /\ options.sdl_source = "system"
                => Range(requires) \cap {"sdl/2.28.3", "sdl_ttf/2.22.0"} = {}
           /\ options.opengl_source = "system"
                => "glfw/3.3.8" \notin Range(requires)

\* A pass with both sources taken from the system has registered its requirements.
C9_Witness ==
    /\ pc = "required"
    /\ options.sdl_source = "system"
    /\ options.opengl_source = "system"
    /\ requires # <<>>
    /\ Keys(conan_packages) \cap {"sdl", "sdl_ttf", "glfw"} = {}

\* C8: applied to the table of the class body, the three conditional statements of
\* configure give the same final mapping in each of the six orders: the one
\* configure itself gives, with no exception on the way.
C8_StepsCommute ==
    (order # <<>> /\ (done = Len(order) \/ pc = "failed"))
        => /\ pc = "configured"
           /\ conan_packages = configure(base_packages, options).packages

\* All three statements have acted, in the reverse of the order of the code.
C8_Witness ==
    /\ order = <<"glfw", "sdl", "opengl">>
    /\ done = Len(order)
    /\ options = [check_opengl_compatibility |-> "yes",
                  opengl_source |-> "system", sdl_source |-> "system"]
    /\ pc = "configured"
    /\ Keys(conan_packages) = (Keys(base_packages) \ {"glfw", "sdl", "sdl_ttf"}) \cup {"opengl"}

\* o with every option whose value is outside its domain put to its default.
Defaulted(o) ==
    [ k \in DOMAIN o |->
        IF o[k] \in { d[k] : d \in option_domains } THEN o[k] ELSE default_options[k] ]

\* o with every option whose value is outside its domain put to the value whose
\* branch configure does not take: "no" for the check, "conan" for the two sources.
NotTaken(o) ==
    [ k \in DOMAIN o |->
        IF o[k] \in { d[k] : d \in option_domains } THEN o[k]
        ELSE IF k = "check_opengl_compatibility" THEN "no" ELSE "conan" ]

\* C10 as stated: with an option value outside its domain configure raises nothing
\* and leaves the mapping it leaves with that option at its default.
C10_OutOfDomainActsAsDefault ==
    [][ (ConfigureStep /\ options \notin option_domains)
          => /\ pc' = "configured"
             /\ Items(conan_packages')
                  = Items(configure(conan_packages, Defaulted(options)).packages) ]_vars

\* C10 amended: with an option value outside its domain configure has the outcome
\* (mapping left, exception or none) it has with opengl_source and sdl_source at
\* "conan", their default, but check_opengl_compatibility at "no", not its default.
C10_OutOfDomainActsAsNotTaken ==
    [][ (ConfigureStep /\ options \notin option_domains)
          => LET r == configure(conan_packages, NotTaken(options)) IN
               /\ conan_packages' = r.packages
               /\ (pc' = "failed") = r.raised ]_vars

\* configure has run in the first pass with an unlisted check_opengl_compatibility.
C10_Witness ==
    /\ pc = "configured"
    /\ options.check_opengl_compatibility \notin {"yes", "no"}
    /\ Items(conan_packages) = Items(base_packages)

====
